---- MODULE Spec2Model ----
(***************************************************************************)
(* Chart payload extraction (textRenderer, makeSystemMessage) and chart    *)
(* rendering (StockChart) of the investment-analyst chat front end.        *)
(*                                                                         *)
(* A text is a sequence of tokens; each token stands for a fixed piece of  *)
(* source text, and the text is the concatenation of its tokens.  The two  *)
(* regular expressions, String.replace, String.trim and JSON.parse are     *)
(* computed on the token sequence.  Numbers are exact decimals with two    *)
(* fractional digits, held in hundredths (150.25 is 15025).                *)
(***************************************************************************)
EXTENDS Integers, Sequences, FiniteSets, TLC

(***************************************************************************)
(* Bounds of the model.                                                    *)
(***************************************************************************)
\* longest data series that is enumerated
MaxPoints == 2
\* longest run of whitespace put in front of and behind a text
MaxPad == 1

(***************************************************************************)
(* Tokens.  t is the kind of token:                                        *)
(*   "bt"      three backticks            "json"  the word json            *)
(*   "sp"      a space                    "nl"    a line feed              *)
(*   "w"       a word of prose (no whitespace, brace, bracket, backtick)   *)
(*   "{" "}" "[" "]" ","                  the JSON punctuation             *)
(*   "member"  "key":value with a scalar value (k, s, n as in a JS value)  *)
(*   "key"     "key": alone, the value follows in the next tokens          *)
(***************************************************************************)
Tok(t) == [t |-> t, key |-> "", k |-> "", s |-> "", n |-> 0]
StrMember(key, s) == [t |-> "member", key |-> key, k |-> "string", s |-> s, n |-> 0]
NumMember(key, n) == [t |-> "member", key |-> key, k |-> "number", s |-> "", n |-> n]
KeyTok(key) == [t |-> "key", key |-> key, k |-> "", s |-> "", n |-> 0]

BT == Tok("bt")
JSONWORD == Tok("json")
SP == Tok("sp")
NL == Tok("nl")
W == Tok("w")
LBRACE == Tok("{")
RBRACE == Tok("}")
LBRACK == Tok("[")
RBRACK == Tok("]")
COMMA == Tok(",")

\* \s of the regular expressions, the whitespace of JSON and of String.trim
IsSpace(tok) == tok.t \in {"sp", "nl"}

(***************************************************************************)
(* JavaScript values.  k is the type; a number is finite (s = "", n in     *)
(* hundredths) or NaN (s = "NaN"); an array holds its elements in a, an    *)
(* object its members (each with its key).                                 *)
(***************************************************************************)
JSV(k, n, s, a) == [k |-> k, key |-> "", n |-> n, s |-> s, a |-> a]
Undefined == JSV("undefined", 0, "", <<>>)
Num(n) == JSV("number", n, "", <<>>)
NaN == JSV("number", 0, "NaN", <<>>)
Str(s) == JSV("string", 0, s, <<>>)
Arr(a) == JSV("array", 0, "", a)
Obj(a) == JSV("object", 0, "", a)
WithKey(v, key) == [v EXCEPT !.key = key]
NoKey(v) == [v EXCEPT !.key = ""]

\* property access obj.key: the last member of that name wins in JSON.parse
RECURSIVE LastMember(_, _, _)
LastMember(a, key, i) ==
  IF i = 0 THEN Undefined
  ELSE IF a[i].key = key THEN NoKey(a[i])
  ELSE LastMember(a, key, i - 1)

Get(v, key) == IF v.k = "object" THEN LastMember(v.a, key, Len(v.a)) ELSE Undefined

\* ToBoolean
Truthy(v) ==
  CASE v.k \in {"undefined", "null"} -> FALSE
    [] v.k = "number" -> v.s = "" /\ v.n # 0
    [] v.k = "string" -> v.s # ""
    [] OTHER -> TRUE

(***************************************************************************)
(* JSON.parse on a token sequence: [ok, v]; ok = FALSE is the SyntaxError. *)
(***************************************************************************)
RECURSIVE SkipWs(_, _)
SkipWs(toks, i) ==
  IF i <= Len(toks) /\ IsSpace(toks[i]) THEN SkipWs(toks, i + 1) ELSE i

ParseFail == [ok |-> FALSE, v |-> Undefined, i |-> 0]

RECURSIVE ParseValue(_, _)
RECURSIVE ParseMembers(_, _, _)
RECURSIVE ParseElements(_, _, _)

\* a value starting at or after position i; i of the result is the next position
ParseValue(toks, i0) ==
  LET i == SkipWs(toks, i0) IN
  IF i > Len(toks) THEN ParseFail
  ELSE IF toks[i].t = "{" THEN
    LET j == SkipWs(toks, i + 1) IN
    IF j <= Len(toks) /\ toks[j].t = "}"
    THEN [ok |-> TRUE, v |-> Obj(<<>>), i |-> j + 1]
    ELSE ParseMembers(toks, j, <<>>)
  ELSE IF toks[i].t = "[" THEN
    LET j == SkipWs(toks, i + 1) IN
    IF j <= Len(toks) /\ toks[j].t = "]"
    THEN [ok |-> TRUE, v |-> Arr(<<>>), i |-> j + 1]
    ELSE ParseElements(toks, j, <<>>)
  ELSE ParseFail

\* the members of an object from position i (a member is expected there)
ParseMembers(toks, i, acc) ==
  IF i > Len(toks) THEN ParseFail
  ELSE
    LET m == IF toks[i].t = "member"
               THEN [ok |-> TRUE,
                     v |-> WithKey(JSV(toks[i].k, toks[i].n, toks[i].s, <<>>), toks[i].key),
                     i |-> i + 1]
             ELSE IF toks[i].t = "key"
               THEN LET r == ParseValue(toks, i + 1) IN
                    [ok |-> r.ok, v |-> WithKey(r.v, toks[i].key), i |-> r.i]
             ELSE ParseFail
    IN
    IF ~m.ok THEN ParseFail
    ELSE
      LET j == SkipWs(toks, m.i) IN
      IF j > Len(toks) THEN ParseFail
      ELSE IF toks[j].t = "," THEN ParseMembers(toks, SkipWs(toks, j + 1), Append(acc, m.v))
      ELSE IF toks[j].t = "}" THEN [ok |-> TRUE, v |-> Obj(Append(acc, m.v)), i |-> j + 1]
      ELSE ParseFail

\* the elements of an array from position i (a value is expected there)
ParseElements(toks, i, acc) ==
  LET e == ParseValue(toks, i) IN
  IF ~e.ok THEN ParseFail
  ELSE
    LET j == SkipWs(toks, e.i) IN
    IF j > Len(toks) THEN ParseFail
    ELSE IF toks[j].t = "," THEN ParseElements(toks, j + 1, Append(acc, e.v))
    ELSE IF toks[j].t = "]" THEN [ok |-> TRUE, v |-> Arr(Append(acc, e.v)), i |-> j + 1]
    ELSE ParseFail

JSONparse(toks) ==
  LET r == ParseValue(toks, 1) IN
  IF r.ok /\ SkipWs(toks, r.i) = Len(toks) + 1
  THEN [ok |-> TRUE, v |-> r.v]
  ELSE [ok |-> FALSE, v |-> Undefined]

(***************************************************************************)
(* Sequence helpers: String.prototype.replace with a string pattern and an *)
(* empty replacement (the first occurrence goes), and String.trim.         *)
(***************************************************************************)
Slice(text, from, to) == SubSeq(text, from, to)

OccursAt(text, pat, i) ==
  /\ i + Len(pat) - 1 <= Len(text)
  /\ \A j \in 1..Len(pat) : text[i + j - 1] = pat[j]

RECURSIVE IndexOfFrom(_, _, _)
IndexOfFrom(text, pat, i) ==
  IF i + Len(pat) - 1 > Len(text) THEN 0
  ELSE IF OccursAt(text, pat, i) THEN i
  ELSE IndexOfFrom(text, pat, i + 1)

\* text.replaceAll(pat, ''): every occurrence goes
RECURSIVE ReplaceAll(_, _)
ReplaceAll(text, pat) ==
  LET i == IndexOfFrom(text, pat, 1) IN
  IF i = 0 \/ Len(pat) = 0 THEN text
  ELSE Slice(text, 1, i - 1) \o ReplaceAll(Slice(text, i + Len(pat), Len(text)), pat)

\* text.replace(pat, '')
ReplaceFirst(text, pat) ==
  LET i == IndexOfFrom(text, pat, 1) IN
  IF i = 0 THEN text
  ELSE Slice(text, 1, i - 1) \o Slice(text, i + Len(pat), Len(text))

RECURSIVE TrimEnd(_)
TrimEnd(text) ==
  IF Len(text) > 0 /\ IsSpace(text[Len(text)])
  THEN TrimEnd(Slice(text, 1, Len(text) - 1))
  ELSE text

\* text.trim()
Trim(text) ==
  LET i == SkipWs(text, 1) IN TrimEnd(Slice(text, i, Len(text)))

(***************************************************************************)
(* The two regular expressions of textRenderer.  A match is                *)
(* [found, from, to, capFrom, capTo]: match[0] is text[from..to] and       *)
(* match[1] is text[capFrom..capTo].                                       *)
(***************************************************************************)
NoMatch == [found |-> FALSE, from |-> 0, to |-> 0, capFrom |-> 0, capTo |-> 0]

\* first position p >= i where  \n?```  matches (the lazy group stops there), or 0
RECURSIVE BlockEnd(_, _)
BlockEnd(text, p) ==
  IF p > Len(text) THEN 0
  ELSE IF text[p] = NL /\ p + 1 <= Len(text) /\ text[p + 1] = BT THEN p
  ELSE IF text[p] = BT THEN p
  ELSE BlockEnd(text, p + 1)

\* /```json\s*\n?([\s\S]*?)\n?```/ tried at position i
JsonBlockAt(text, i) ==
  IF i + 1 <= Len(text) /\ text[i] = BT /\ text[i + 1] = JSONWORD THEN
    LET c == SkipWs(text, i + 2)
        p == BlockEnd(text, c)
    IN IF p = 0 THEN NoMatch
       ELSE [found |-> TRUE, from |-> i, to |-> IF text[p] = BT THEN p ELSE p + 1,
             capFrom |-> c, capTo |-> p - 1]
  ELSE NoMatch

RECURSIVE JsonBlockFrom(_, _)
JsonBlockFrom(text, i) ==
  IF i > Len(text) THEN NoMatch
  ELSE IF JsonBlockAt(text, i).found THEN JsonBlockAt(text, i)
  ELSE JsonBlockFrom(text, i + 1)

\* text.match(/```json\s*\n?([\s\S]*?)\n?```/): the leftmost match
jsonBlockMatch(text) == JsonBlockFrom(text, 1)

RECURSIVE FirstTok(_, _, _)
FirstTok(text, t, p) ==
  IF p > Len(text) THEN 0
  ELSE IF text[p].t = t THEN p
  ELSE FirstTok(text, t, p + 1)

\* first position d >= p where  "data":\s*\[  matches; the position of its [ , or 0
RECURSIVE FirstDataOpen(_, _)
FirstDataOpen(text, p) ==
  IF p > Len(text) THEN 0
  ELSE IF text[p].t = "key" /\ text[p].key = "data"
          /\ SkipWs(text, p + 1) <= Len(text) /\ text[SkipWs(text, p + 1)].t = "["
    THEN SkipWs(text, p + 1)
  ELSE FirstDataOpen(text, p + 1)

IsChartType(tok) == tok.t = "member" /\ tok.key = "type" /\ tok.k = "string" /\ tok.s = "stock_chart"

\* the tail without its  \]  : [\s\S]*?"data":\s*\[[\s\S]*?\}
InlineTailToFirstBrace(text, p) ==
  LET b == FirstDataOpen(text, p) IN
  IF b = 0 THEN 0 ELSE FirstTok(text, "}", b + 1)

\* [\s\S]*?"data":\s*\[[\s\S]*?\][\s\S]*?\}  from position p: the position of the } , or 0
InlineTail(text, p) ==
  LET b == FirstDataOpen(text, p) IN
  IF b = 0 THEN 0
  ELSE LET r == FirstTok(text, "]", b + 1) IN
       IF r = 0 THEN 0 ELSE FirstTok(text, "}", r + 1)

\* the end of the run [^{}]* that starts at p
RECURSIVE RunEnd(_, _)
RunEnd(text, p) ==
  IF p <= Len(text) /\ text[p].t \notin {"{", "}"} THEN RunEnd(text, p + 1) ELSE p - 1

\* [^{}]* is greedy: the last "type": "stock_chart" of the run from which the rest matches
RECURSIVE InlineTypeBack(_, _, _)
InlineTypeBack(text, j, i) ==
  IF j <= i THEN 0
  ELSE IF IsChartType(text[j]) /\ InlineTail(text, j + 1) # 0 THEN j
  ELSE InlineTypeBack(text, j - 1, i)

\* the inline expression tried at position i
InlineJsonAt(text, i) ==
  IF text[i].t = "{" THEN
    LET j == InlineTypeBack(text, RunEnd(text, i + 1), i) IN
    IF j = 0 THEN NoMatch
    ELSE [found |-> TRUE, from |-> i, to |-> InlineTail(text, j + 1),
          capFrom |-> i, capTo |-> InlineTail(text, j + 1)]
  ELSE NoMatch

RECURSIVE InlineJsonFrom(_, _)
InlineJsonFrom(text, i) ==
  IF i > Len(text) THEN NoMatch
  ELSE IF InlineJsonAt(text, i).found THEN InlineJsonAt(text, i)
  ELSE InlineJsonFrom(text, i + 1)

\* text.match(/\{[^{}]*"type":\s*"stock_chart"[\s\S]*?"data":\s*\[[\s\S]*?\][\s\S]*?\}/)
inlineJsonMatch(text) == InlineJsonFrom(text, 1)

(***************************************************************************)
(* textRenderer.  The result is what the function returns, with the path   *)
(* it took: element = FALSE is `return text`; element = TRUE is the        *)
(* <div> holding textWithoutJson and <StockChart .../> with these props.   *)
(* via names the branch that returned; inlineTried tells whether the       *)
(* inline expression was matched against the text at all.                  *)
(***************************************************************************)
NoProps ==
  [ticker |-> Undefined, company_name |-> Undefined, period |-> Undefined,
   data |-> Undefined, current_price |-> Undefined]

\* the acceptance test without its last conjunct
AcceptsWithoutTicker(chartData) ==
  /\ Get(chartData, "type") = Str("stock_chart")
  /\ Truthy(Get(chartData, "data"))

\* chartData.type === "stock_chart" && chartData.data && chartData.ticker
Accepts(chartData) ==
  /\ Get(chartData, "type") = Str("stock_chart")
  /\ Truthy(Get(chartData, "data"))
  /\ Truthy(Get(chartData, "ticker"))

\* the props of <StockChart/>, the same in both branches
\* the members handed on as they are parsed, with no fallback for the period
ChartPropsAsParsed(chartData) ==
  [ticker |-> Get(chartData, "ticker"),
   company_name |-> IF Truthy(Get(chartData, "company_name"))
                    THEN Get(chartData, "company_name") ELSE Get(chartData, "ticker"),
   period |-> Get(chartData, "period"),
   data |-> Get(chartData, "data"),
   current_price |-> Get(chartData, "current_price")]

ChartProps(chartData) ==
  [ticker |-> Get(chartData, "ticker"),
   company_name |-> IF Truthy(Get(chartData, "company_name"))
                    THEN Get(chartData, "company_name") ELSE Get(chartData, "ticker"),
   period |-> IF Truthy(Get(chartData, "period")) THEN Get(chartData, "period") ELSE Str("1mo"),
   data |-> Get(chartData, "data"),
   current_price |-> Get(chartData, "current_price")]

\* the removal without the trim
textWithoutJsonUntrimmed(text, m) == ReplaceFirst(text, Slice(text, m.from, m.to))

\* text.replace(match[0], '').trim()
textWithoutJson(text, m) == Trim(ReplaceFirst(text, Slice(text, m.from, m.to)))

\* the fallback returning the text trimmed
ReturnTextTrimmed(text, inlineTried) ==
  [element |-> FALSE, text |-> Trim(text), props |-> NoProps, via |-> "none",
   inlineTried |-> inlineTried]

ReturnText(text, inlineTried) ==
  [element |-> FALSE, text |-> text, props |-> NoProps, via |-> "none",
   inlineTried |-> inlineTried]

ReturnChart(text, m, chartData, via) ==
  [element |-> TRUE, text |-> textWithoutJson(text, m), props |-> ChartProps(chartData),
   via |-> via, inlineTried |-> via = "inline"]

\* the second half of textRenderer: the inline form
InlineBranch(text) ==
  LET m == inlineJsonMatch(text)
      parsed == JSONparse(Slice(text, m.from, m.to))
  IN IF m.found /\ parsed.ok /\ Accepts(parsed.v)
     THEN ReturnChart(text, m, parsed.v, "inline")
     ELSE ReturnText(text, TRUE)

\* the two forms tried in the other order
textRendererInlineFirst(text) ==
  LET first == InlineBranch(text)
      m == jsonBlockMatch(text)
      parsed == JSONparse(Slice(text, m.capFrom, m.capTo))
  IN IF first.element THEN first
     ELSE IF m.found /\ parsed.ok /\ Accepts(parsed.v)
     THEN ReturnChart(text, m, parsed.v, "block")
     ELSE ReturnText(text, TRUE)

\* the first half: the fenced form, which returns or falls through
textRenderer(text) ==
  LET m == jsonBlockMatch(text)
      parsed == JSONparse(Slice(text, m.capFrom, m.capTo))
  IN IF m.found /\ parsed.ok /\ Accepts(parsed.v)
     THEN ReturnChart(text, m, parsed.v, "block")
     ELSE InlineBranch(text)

(***************************************************************************)
(* StockChart.  Number.prototype.toFixed(2) yields a text, held as         *)
(* [sign, n, s]: sign and the magnitude n in hundredths, or s one of NaN,  *)
(* Infinity, -Infinity.                                                    *)
(***************************************************************************)
Abs(x) == IF x < 0 THEN -x ELSE x
Fixed(sign, n) == [sign |-> sign, n |-> n, s |-> ""]
FixedWord(s) == [sign |-> "", n |-> 0, s |-> s]
NoFixed == FixedWord("")

\* ToNumber of the operands that occur: "" is 0, a numeric text its value, other text NaN
NumericText(s) ==
  CASE s = "" -> Num(0)
    [] s = "155.50" -> Num(15550)
    [] s = "150.25" -> Num(15025)
    [] OTHER -> NaN

ToNumber(v) ==
  CASE v.k = "number" -> v
    [] v.k = "null" -> Num(0)
    [] v.k = "string" -> NumericText(v.s)
    [] OTHER -> NaN

\* a - b, of operands that are finite or NaN once converted
Minus(a, b) ==
  LET x == ToNumber(a)
      y == ToNumber(b)
  IN IF x.s = "NaN" \/ y.s = "NaN" THEN NaN ELSE Num(x.n - y.n)

\* x.toFixed(2) of a number
toFixed2(x) ==
  IF x.s # "" THEN FixedWord(x.s)
  ELSE Fixed(IF x.n < 0 THEN "-" ELSE "", Abs(x.n))

\* ((a / b) * 100).toFixed(2): NaN if an operand is; a division by zero is Infinity,
\* -Infinity or NaN (0 / 0); else the quotient, rounded to hundredths, ties away from 0
PercentFixed(a, b) ==
  LET y == ToNumber(b) IN
  IF a.s = "NaN" \/ y.s = "NaN" THEN FixedWord("NaN")
  ELSE IF y.n = 0 THEN
    (IF a.n = 0 THEN FixedWord("NaN")
     ELSE IF a.n > 0 THEN FixedWord("Infinity") ELSE FixedWord("-Infinity"))
  ELSE Fixed(IF (a.n < 0 /\ y.n > 0) \/ (a.n > 0 /\ y.n < 0) THEN "-" ELSE "",
             (2 * Abs(a.n) * 10000 + Abs(y.n)) \div (2 * Abs(y.n)))

\* the guard without its length test: !data
NoDataFalsyOnly(data) == ~Truthy(data)

\* !data || data.length === 0
NoData(data) == ~Truthy(data) \/ (data.k = "array" /\ Len(data.a) = 0)

\* the price of the last point instead of the first
lastPrice(data) ==
  LET last == IF data.k = "array" /\ Len(data.a) > 0 THEN data.a[Len(data.a)] ELSE Undefined
      price == Get(last, "price")
  IN IF Truthy(price) THEN price ELSE Num(0)

\* data[0]?.price || 0
firstPrice(data) ==
  LET first == IF data.k = "array" /\ Len(data.a) > 0 THEN data.a[1] ELSE Undefined
      price == Get(first, "price")
  IN IF Truthy(price) THEN price ELSE Num(0)

\* current_price - firstPrice
priceChange(props) == Minus(props.current_price, firstPrice(props.data))

\* ((priceChange / firstPrice) * 100).toFixed(2)
priceChangePercent(props) == PercentFixed(priceChange(props), firstPrice(props.data))

\* priceChange >= 0
isPositive(props) ==
  LET c == priceChange(props) IN
  c.s = "" /\ c.n >= 0

\* the axis drawn from the last element back to the first
AxisDatesReversed(data) ==
  IF data.k = "array"
  THEN [i \in 1..Len(data.a) |-> Get(data.a[Len(data.a) + 1 - i], "date")]
  ELSE <<>>

\* the dates along the horizontal axis: <XAxis dataKey="date"/> over data
AxisDates(data) ==
  IF data.k = "array" THEN [i \in 1..Len(data.a) |-> Get(data.a[i], "date")] ELSE <<>>

NoView ==
  [state |-> "none", ticker |-> Undefined, company_name |-> Undefined, period |-> Undefined,
   price |-> NoFixed, sign |-> "", change |-> NoFixed, percent |-> NoFixed,
   positive |-> FALSE, axis |-> <<>>, start |-> NoFixed, current |-> NoFixed,
   points |-> -1, derived |-> {}]

\* the early return: only the message, nothing is derived
NoDataView(props) == [NoView EXCEPT !.state = "nodata", !.ticker = props.ticker]

\* x.toFixed(2) is a TypeError unless x is a number
Throws(props) ==
  \/ props.current_price.k # "number"
  \/ firstPrice(props.data).k # "number"

\* a render that throws leaves no output; derived tells what was computed before
ThrowView == [NoView EXCEPT !.state = "throw", !.derived = {"minus", "divide"}]

ChartView(props) ==
  [state |-> "chart", ticker |-> props.ticker, company_name |-> props.company_name,
   period |-> props.period,
   price |-> toFixed2(props.current_price),
   sign |-> IF isPositive(props) THEN "+" ELSE "",
   change |-> toFixed2(priceChange(props)),
   percent |-> priceChangePercent(props),
   positive |-> isPositive(props),
   axis |-> AxisDates(props.data),
   start |-> toFixed2(firstPrice(props.data)),
   current |-> toFixed2(props.current_price),
   points |-> IF props.data.k = "array" THEN Len(props.data.a) ELSE -1,
   derived |-> {"minus", "divide"}]

StockChart(props) ==
  IF NoData(props.data) THEN NoDataView(props)
  ELSE IF Throws(props) THEN ThrowView
  ELSE ChartView(props)

(***************************************************************************)
(* The texts an assistant message may hold.  The backend tool's result is  *)
(* a JSON object; Encode writes a value as its JSON text.                  *)
(***************************************************************************)
RECURSIVE Encode(_)
RECURSIVE EncodeAll(_, _, _)

\* the members of an object (inObject) or the elements of an array from i, with commas
EncodeAll(a, i, inObject) ==
  IF i > Len(a) THEN <<>>
  ELSE
    LET one == IF a[i].k \in {"array", "object"}
               THEN (IF inObject THEN <<KeyTok(a[i].key)>> ELSE <<>>) \o Encode(a[i])
               ELSE <<[t |-> "member", key |-> a[i].key, k |-> a[i].k, s |-> a[i].s,
                       n |-> a[i].n]>>
    IN one \o (IF i < Len(a) THEN <<COMMA>> ELSE <<>>) \o EncodeAll(a, i + 1, inObject)

Encode(v) ==
  IF v.k = "object" THEN <<LBRACE>> \o EncodeAll(v.a, 1, TRUE) \o <<RBRACE>>
  ELSE <<LBRACK>> \o EncodeAll(v.a, 1, FALSE) \o <<RBRACK>>

Dates == <<"2024-01-01", "2024-01-31", "2024-02-29", "2024-03-31">>
StartPrices == <<15025, 15550, 14800, 15100>>

\* one PricePoint
Point(date, price) ==
  Obj(<<WithKey(Str(date), "date"), WithKey(price, "price"), WithKey(Num(100000000), "volume")>>)

\* a series of n points as the tool returns them
Series(n) == [i \in 1..n |-> Point(Dates[i], Num(StartPrices[i]))]

Type(s) == WithKey(Str(s), "type")
Ticker(s) == WithKey(Str(s), "ticker")
Data(a) == WithKey(Arr(a), "data")
Price(n) == WithKey(Num(n), "current_price")

\* The literals.  The first eleven pass the acceptance test; the rest do not.
LitNames ==
  {"full", "min", "empty", "dataFirst", "nested", "noPrice", "textPrice", "pointText",
   "dataNumber", "zeroStart", "blankName",
   "wrongType", "noType", "noTicker", "emptyTicker", "noData", "nullData",
   "truncated", "garbage"}

LitValue(lit) ==
  CASE lit = "full" ->
         Obj(<<Type("stock_chart"), Ticker("AAPL"), WithKey(Str("Apple Inc."), "company_name"),
               WithKey(Str("3mo"), "period"), Data(Series(MaxPoints)), Price(15550)>>)
    [] lit = "min" -> Obj(<<Type("stock_chart"), Ticker("MSFT"), Data(Series(1)), Price(1000)>>)
    [] lit = "empty" -> Obj(<<Type("stock_chart"), Ticker("AAPL"), Data(<<>>), Price(15550)>>)
    [] lit = "dataFirst" ->
         Obj(<<Ticker("AAPL"), Data(Series(1)), Type("stock_chart"), Price(15550)>>)
    [] lit = "nested" ->
         Obj(<<Type("stock_chart"), Ticker("AAPL"), Data(Series(1)),
               WithKey(Obj(<<WithKey(Str("yfinance"), "source")>>), "meta"), Price(15550)>>)
    [] lit = "noPrice" -> Obj(<<Type("stock_chart"), Ticker("AAPL"), Data(Series(1))>>)
    [] lit = "textPrice" ->
         Obj(<<Type("stock_chart"), Ticker("AAPL"), Data(Series(1)),
               WithKey(Str("155.50"), "current_price")>>)
    [] lit = "pointText" ->
         Obj(<<Type("stock_chart"), Ticker("AAPL"),
               Data(<<Point(Dates[1], Str("n/a"))>>), Price(15550)>>)
    [] lit = "dataNumber" ->
         Obj(<<Type("stock_chart"), Ticker("AAPL"), WithKey(Num(500), "data"), Price(15550)>>)
    [] lit = "zeroStart" ->
         Obj(<<Type("stock_chart"), Ticker("AAPL"), Data(<<Point(Dates[1], Num(0))>>),
               Price(1000)>>)
    [] lit = "blankName" ->
         Obj(<<Type("stock_chart"), Ticker("AAPL"), WithKey(Str(""), "company_name"),
               WithKey(Str(""), "period"), Data(Series(1)), Price(15550)>>)
    [] lit = "wrongType" ->
         Obj(<<Type("table"), Ticker("AAPL"), Data(Series(1)), Price(15550)>>)
    [] lit = "noType" -> Obj(<<Ticker("AAPL"), Data(Series(1)), Price(15550)>>)
    [] lit = "noTicker" -> Obj(<<Type("stock_chart"), Data(Series(1)), Price(15550)>>)
    [] lit = "emptyTicker" ->
         Obj(<<Type("stock_chart"), Ticker(""), Data(Series(1)), Price(15550)>>)
    [] lit = "noData" -> Obj(<<Type("stock_chart"), Ticker("AAPL"), Price(15550)>>)
    [] lit = "nullData" ->
         Obj(<<Type("stock_chart"), Ticker("AAPL"), WithKey(JSV("null", 0, "", <<>>), "data"),
               Price(15550)>>)
    [] OTHER -> Obj(<<Type("stock_chart"), Ticker("AAPL"), Data(Series(1)), Price(15550)>>)

\* the text of a literal: "truncated" has lost its closing brace, "garbage" is { word }
LitText(lit) ==
  CASE lit = "truncated" ->
         LET whole == Encode(LitValue(lit)) IN Slice(whole, 1, Len(whole) - 1)
    [] lit = "garbage" -> <<LBRACE, W, RBRACE>>
    [] OTHER -> Encode(LitValue(lit))

\* A fragment is a literal in one of the two forms; form "none" is prose: a word, or
\* a code block that is not labelled json.
Fragment(form, lit) == [form |-> form, lit |-> lit]
Prose == Fragment("none", "")
CodeBlock == Fragment("none", "code")

FragmentText(f) ==
  CASE f.form = "block" -> <<BT, JSONWORD, NL>> \o LitText(f.lit) \o <<NL, BT>>
    [] f.form = "inline" -> LitText(f.lit)
    [] f.lit = "code" -> <<BT, NL, W, SP, LBRACE, W, RBRACE, NL, BT>>
    [] OTHER -> <<W>>

Fragments ==
  {Fragment(form, lit) : form \in {"block", "inline"}, lit \in LitNames} \cup {Prose, CodeBlock}

\* what may stand before and after the main fragment
Neighbours ==
  {Fragment("none", "absent"), Fragment("block", "min"), Fragment("inline", "min"),
   Fragment("block", "garbage"), Fragment("inline", "wrongType")}

Present(f) == f.lit # "absent"

\* whitespace, then maybe a word and a space, in front; behind, the mirror image
RECURSIVE Spaces(_)
Spaces(n) == IF n = 0 THEN <<>> ELSE <<SP>> \o Spaces(n - 1)
PadWidths == 0..MaxPad

\* A composition: lead, a neighbour before, the main fragment, a neighbour after, trail.
Compositions ==
  [lead : PadWidths, before : Neighbours, main : Fragments, after : Neighbours,
   trail : PadWidths, worded : BOOLEAN]

BeforeText(c) == IF Present(c.before) THEN FragmentText(c.before) \o <<NL>> ELSE <<>>
AfterText(c) == IF Present(c.after) THEN <<NL>> \o FragmentText(c.after) ELSE <<>>
LeadText(c) == Spaces(c.lead) \o (IF c.worded THEN <<W, SP>> ELSE <<>>)
TrailText(c) == (IF c.worded THEN <<SP, W>> ELSE <<>>) \o Spaces(c.trail)

TextOf(c) ==
  LeadText(c) \o BeforeText(c) \o FragmentText(c.main) \o AfterText(c) \o TrailText(c)

\* The messages the chat hands to the hook.  Only the assistant's come in every
\* composition; the others and the contents that are no string come in a few.
Roles == {"assistant", "user", "system"}

PlainCompositions ==
  {c \in Compositions :
     /\ c.lead = 0 /\ c.trail = 0 /\ ~c.worded
     /\ ~Present(c.before) /\ ~Present(c.after)
     /\ c.main \in {Prose, Fragment("block", "full"), Fragment("inline", "min")}}

NoComposition ==
  [lead |-> 0, before |-> Fragment("none", "absent"), main |-> Prose,
   after |-> Fragment("none", "absent"), trail |-> 0, worded |-> FALSE]

Message(role, isString, c) ==
  [role |-> role, isString |-> isString, content |-> IF isString THEN TextOf(c) ELSE <<>>]

Inputs ==
  {[role |-> "assistant", isString |-> TRUE, c |-> c] : c \in Compositions}
  \cup {[role |-> r, isString |-> TRUE, c |-> c] : r \in Roles \ {"assistant"},
                                                    c \in PlainCompositions}
  \cup {[role |-> r, isString |-> FALSE, c |-> NoComposition] : r \in Roles}

\* the payloads a caller hands to StockChart directly
PriceSet == {0, 1000, 15025, 15550}
DateSet == {Dates[1], Dates[2]}

\* the points in whatever order of dates the caller has them
PriceSeries ==
  UNION {{[i \in 1..n |-> Point(ds[i], Num(ps[i]))] :
            ps \in [1..n -> PriceSet], ds \in [1..n -> DateSet]} : n \in 0..MaxPoints}

DirectProps ==
  {[ticker |-> Str("AAPL"), company_name |-> Str("Apple Inc."), period |-> Str("1mo"),
    data |-> Arr(ps), current_price |-> Num(cp)] : ps \in PriceSeries, cp \in PriceSet}

(***************************************************************************)
(* The state: the message in hand and how its text was composed, what the  *)
(* hook did with it, and what StockChart rendered.                         *)
(***************************************************************************)
VARIABLES message, source, result, shown, view, pc

vars == <<message, source, result, shown, view, pc>>

NoMessage == Message("system", FALSE, NoComposition)

\* textRenderer was not called
NotCalled ==
  [element |-> FALSE, text |-> <<>>, props |-> NoProps, via |-> "not called",
   inlineTried |-> FALSE]

\* a message as the hook returns it: content is a string (text) or an element
Shown(m, element, text, props) ==
  [role |-> m.role, isString |-> m.isString /\ ~element, element |-> element,
   text |-> text, props |-> props]

\* the hook without the test of the role
makeSystemMessageAnyRole(m) ==
  IF m.isString THEN
    LET content == textRenderer(m.content) IN
    IF content.element \/ content.text # m.content
    THEN [result |-> content,
          shown |-> Shown(m, content.element, content.text, content.props)]
    ELSE [result |-> content, shown |-> Shown(m, FALSE, m.content, NoProps)]
  ELSE [result |-> NotCalled, shown |-> Shown(m, FALSE, m.content, NoProps)]

\* makeSystemMessage: [result, shown]
makeSystemMessage(m) ==
  IF m.role = "assistant" /\ m.isString THEN
    LET content == textRenderer(m.content) IN
    IF content.element \/ content.text # m.content
    THEN [result |-> content,
          shown |-> Shown(m, content.element, content.text, content.props)]
    ELSE [result |-> content, shown |-> Shown(m, FALSE, m.content, NoProps)]
  ELSE [result |-> NotCalled, shown |-> Shown(m, FALSE, m.content, NoProps)]

Init ==
  /\ message = NoMessage
  /\ source = NoComposition
  /\ result = NotCalled
  /\ shown = Shown(NoMessage, FALSE, <<>>, NoProps)
  /\ view = NoView
  /\ pc = "idle"

\* the chat hands a message to makeSystemMessage
MakeSystemMessage ==
  /\ pc = "idle"
  /\ \E in \in Inputs :
       \E m \in {Message(in.role, in.isString, in.c)} :
         \E out \in {makeSystemMessage(m)} :
           /\ message' = m
           /\ source' = in.c
           /\ result' = out.result
           /\ shown' = out.shown
  /\ view' = NoView
  /\ pc' = "returned"

\* a caller renders <StockChart/> with a payload of its own
Mount ==
  /\ pc = "idle"
  /\ \E props \in DirectProps : shown' = Shown(NoMessage, TRUE, <<>>, props)
  /\ pc' = "returned"
  /\ UNCHANGED <<message, source, result, view>>

\* React renders the element the hook returned
Render ==
  /\ pc = "returned"
  /\ shown.element
  /\ view' = StockChart(shown.props)
  /\ pc' = IF view'.state = "throw" THEN "crashed" ELSE "rendered"
  /\ UNCHANGED <<message, source, result, shown>>

\* the message is on screen; the payload is dropped and the next message awaited
Discard ==
  /\ \/ pc = "rendered"
     \/ pc = "returned" /\ ~shown.element
  /\ message' = NoMessage
  /\ source' = NoComposition
  /\ result' = NotCalled
  /\ shown' = Shown(NoMessage, FALSE, <<>>, NoProps)
  /\ view' = NoView
  /\ pc' = "idle"

Next == MakeSystemMessage \/ Render \/ Discard

Spec == Init /\ [][Next]_vars

NextChart == Mount \/ Render \/ Discard

SpecChart == Init /\ [][NextChart]_vars

(***************************************************************************)
(* What the claims speak of, read off the composition of the text and      *)
(* never computed by textRenderer.                                         *)
(***************************************************************************)
Places == {"before", "main", "after"}
At(c, place) == IF place = "before" THEN c.before ELSE IF place = "main" THEN c.main ELSE c.after

\* the text with the whole fragment at a place taken out
Without(c, place) ==
  LeadText(c)
  \o (IF place = "before" THEN <<NL>> ELSE BeforeText(c))
  \o (IF place = "main" THEN <<>> ELSE FragmentText(c.main))
  \o (IF place = "after" THEN <<NL>> ELSE AfterText(c))
  \o TrailText(c)

\* r is t without the whitespace at its two ends
IsTrimOf(r, t) ==
  /\ r = <<>> \/ (~IsSpace(r[1]) /\ ~IsSpace(r[Len(r)]))
  /\ \E a \in 0..Len(t) :
       /\ \A i \in 1..a : IsSpace(t[i])
       /\ \A i \in (a + Len(r) + 1)..Len(t) : IsSpace(t[i])
       /\ a + Len(r) <= Len(t)
       /\ r = SubSeq(t, a + 1, a + Len(r))

\* the member of an object, by name (the payloads repeat no name)
Member(v, key) ==
  LET at == {i \in 1..Len(v.a) : v.a[i].key = key}
  IN IF at = {} THEN Undefined ELSE NoKey(v.a[CHOOSE i \in at : TRUE])

Field(lit, key) == Member(LitValue(lit), key)

\* well-formed JSON that holds the discriminator, a non-empty ticker and data
WellFormed(lit) == lit \in LitNames \ {"truncated", "garbage"}
Acceptable(lit) ==
  /\ WellFormed(lit)
  /\ Field(lit, "type") = Str("stock_chart")
  /\ Field(lit, "ticker").k = "string" /\ Field(lit, "ticker").s # ""
  /\ Field(lit, "data").k \in {"array", "number"}

GoodBlock(f) == f.form = "block" /\ Acceptable(f.lit)

\* the payload handed on is the literal's
PayloadOf(props, lit) ==
  /\ props.ticker = Field(lit, "ticker")
  /\ props.data = Field(lit, "data")
  /\ props.current_price = Field(lit, "current_price")

\* the place of the first fenced block of the text, "" if it has none
FirstBlock(c) ==
  IF c.before.form = "block" THEN "before"
  ELSE IF c.main.form = "block" THEN "main"
  ELSE IF c.after.form = "block" THEN "after"
  ELSE ""

\* the hook has run textRenderer on the text composed as source says
Extracted == pc = "returned" /\ message.role = "assistant" /\ message.isString

(***************************************************************************)
(* C1 as stated: whenever the text contains a well-formed fenced block     *)
(* with the discriminator, a ticker and data, the extractor returns the    *)
(* payload of such a block, and the residual text is the input with        *)
(* exactly that block removed, trimmed.                                    *)
(***************************************************************************)
C1_AnyGoodBlockIsExtracted ==
  (Extracted /\ \E place \in Places : GoodBlock(At(source, place)))
  => \E place \in Places :
       /\ GoodBlock(At(source, place))
       /\ result.element
       /\ PayloadOf(result.props, At(source, place).lit)
       /\ IsTrimOf(result.text, Without(source, place))

(***************************************************************************)
(* C1 amended: when the FIRST fenced block of the text is well-formed and  *)
(* holds the discriminator, a non-empty ticker and data, the extractor     *)
(* returns its payload, and the residual text is the input with exactly    *)
(* that block removed and the whitespace at both ends trimmed.             *)
(***************************************************************************)
C1_FirstGoodBlockIsExtracted ==
  (Extracted /\ FirstBlock(source) # "" /\ GoodBlock(At(source, FirstBlock(source))))
  => /\ result.element
     /\ result.via = "block"
     /\ PayloadOf(result.props, At(source, FirstBlock(source)).lit)
     /\ IsTrimOf(result.text, Without(source, FirstBlock(source)))
     /\ shown.element /\ shown.text = result.text /\ shown.props = result.props

\* a good block between other fragments and whitespace: the trim and the removal both act
C1_Witness ==
  /\ Extracted
  /\ source.before = Fragment("inline", "wrongType")
  /\ source.main = Fragment("block", "full")
  /\ source.lead = 1 /\ ~source.worded
  /\ result.element /\ result.via = "block"
  /\ Len(result.text) < Len(Without(source, "main"))

(***************************************************************************)
(* C2: a text without any embedded fragment (no json block, no literal)    *)
(* yields no payload and comes back as it is: not trimmed, not rewritten.  *)
(***************************************************************************)
NoFragment(c) == ~Present(c.before) /\ ~Present(c.after) /\ c.main.form = "none"

C2_PlainTextUnchanged ==
  (Extracted /\ NoFragment(source))
  => /\ ~result.element
     /\ result.text = TextOf(source)
     /\ ~shown.element /\ shown.isString
     /\ shown.text = TextOf(source)

\* plain text with whitespace at both ends, which a trim would have cut
C2_Witness ==
  /\ Extracted /\ NoFragment(source)
  /\ source.lead = 1 /\ source.trail = 1 /\ ~source.worded
  /\ source.main = CodeBlock
  /\ ~shown.element
  /\ IsSpace(shown.text[1]) /\ IsSpace(shown.text[Len(shown.text)])

(***************************************************************************)
(* C3: a text whose only candidate fragment is malformed (truncated, not   *)
(* JSON), has another discriminator or none, lacks a ticker (missing or    *)
(* empty) or lacks data yields no payload and the original text, and       *)
(* nothing is raised: the message is shown, no render is attempted.        *)
(***************************************************************************)
OnlyBadFragment(c) ==
  /\ ~Present(c.before) /\ ~Present(c.after)
  /\ c.main.form \in {"block", "inline"}
  /\ ~Acceptable(c.main.lit)

C3_BadFragmentLeavesText ==
  (message.role = "assistant" /\ message.isString /\ OnlyBadFragment(source))
  => /\ pc \in {"returned"}
     /\ ~result.element /\ result.via = "none"
     /\ ~shown.element /\ shown.text = TextOf(source)
     /\ view = NoView

\* the literal that only lacks a ticker, inline: the expression matches it, it parses
C3_Witness ==
  /\ Extracted /\ OnlyBadFragment(source)
  /\ source.main = Fragment("inline", "noTicker")
  /\ source.lead = 1
  /\ result.inlineTried /\ ~shown.element

(***************************************************************************)
(* C4: the fenced form is tried first.  When the first fenced block parses *)
(* and passes the acceptance test, the payload is that block's, also with  *)
(* an acceptable inline literal earlier in the text; the inline form is    *)
(* tried if and only if there is no fenced block or the first one fails to *)
(* parse or fails the test, and it is judged by the same test.             *)
(***************************************************************************)
FirstBlockAccepted(c) == FirstBlock(c) # "" /\ GoodBlock(At(c, FirstBlock(c)))

Scalar(v) == v.k \notin {"array", "object"}

\* the literal has the shape the inline expression looks for: the discriminator with
\* no nested value before it, a data array of flat objects after it, and no nested
\* value behind the data
Shaped(lit) ==
  LET a == LitValue(lit).a IN
  /\ WellFormed(lit)
  /\ \E i \in 1..Len(a), d \in 1..Len(a) :
       /\ i < d
       /\ a[i].key = "type" /\ NoKey(a[i]) = Str("stock_chart")
       /\ a[d].key = "data" /\ a[d].k = "array"
       /\ \A j \in 1..Len(a) : (j < i \/ j > d) => Scalar(a[j])
       /\ \A e \in 1..Len(a[d].a) :
            a[d].a[e].k = "object" /\ \A j \in 1..Len(a[d].a[e].a) : Scalar(a[d].a[e].a[j])

C4_BlockFormFirst ==
  Extracted =>
    /\ FirstBlockAccepted(source) =>
         /\ result.via = "block"
         /\ PayloadOf(result.props, At(source, FirstBlock(source)).lit)
    /\ result.inlineTried <=> ~FirstBlockAccepted(source)
    /\ (/\ FirstBlock(source) = "" /\ ~Present(source.before)
        /\ source.main.form = "inline" /\ Shaped(source.main.lit))
       => /\ result.element <=> Acceptable(source.main.lit)
          /\ result.element => result.via = "inline"

\* an acceptable inline literal stands before the accepted block
C4_Witness ==
  /\ Extracted
  /\ source.before = Fragment("inline", "min")
  /\ source.main = Fragment("block", "full")
  /\ result.via = "block" /\ ~result.inlineTried
  /\ result.props.ticker = Str("AAPL")

(***************************************************************************)
(* C5: whatever the number of candidate fragments, at most one payload is  *)
(* extracted and at most one fragment removed: the payload is that of the  *)
(* first match of the winning form, and every other fragment is still in   *)
(* the residual text, verbatim.                                            *)
(***************************************************************************)
Occurs(t, pat) == \E i \in 1..(Len(t) - Len(pat) + 1) : SubSeq(t, i, i + Len(pat) - 1) = pat

\* the text with only the literal at a place taken out (a fence around it stays)
WithoutLiteral(c, place) ==
  LET gap == IF At(c, place).form = "block" THEN <<BT, JSONWORD, NL, NL, BT>> ELSE <<>> IN
  LeadText(c)
  \o (IF place = "before" THEN gap \o <<NL>> ELSE BeforeText(c))
  \o (IF place = "main" THEN gap ELSE FragmentText(c.main))
  \o (IF place = "after" THEN <<NL>> \o gap ELSE AfterText(c))
  \o TrailText(c)

Earlier(place) ==
  IF place = "after" THEN {"before", "main"} ELSE IF place = "main" THEN {"before"} ELSE {}

C5_OnePayloadOneRemoval ==
  (Extracted /\ result.element)
  => \E place \in Places :
       /\ Present(At(source, place))
       /\ PayloadOf(result.props, At(source, place).lit)
       /\ \/ /\ result.via = "block"
             /\ place = FirstBlock(source)
             /\ IsTrimOf(result.text, Without(source, place))
          \/ /\ result.via = "inline"
             /\ Shaped(At(source, place).lit)
             /\ \A q \in Earlier(place) :
                  Present(At(source, q)) => ~Shaped(At(source, q).lit)
             /\ IsTrimOf(result.text, WithoutLiteral(source, place))
       /\ \A other \in Places \ {place} :
            Present(At(source, other))
            => Occurs(result.text, FragmentText(At(source, other)))

\* the same literal twice, and a block besides: the first one goes, the second stays
C5_Witness ==
  /\ Extracted
  /\ source.before = Fragment("inline", "min")
  /\ source.main = Fragment("inline", "min")
  /\ source.after = Fragment("block", "garbage")
  /\ result.element /\ result.via = "inline"
  /\ Occurs(result.text, FragmentText(source.main))

(***************************************************************************)
(* C6 as stated: a text without a fenced block that holds one well-formed  *)
(* inline literal with the discriminator, a ticker and a data array, in    *)
(* whatever order the fields come, yields the payload and the text with    *)
(* the literal removed, trimmed.                                           *)
(***************************************************************************)
OneInlineLiteral(c) ==
  /\ ~Present(c.before) /\ ~Present(c.after)
  /\ c.main.form = "inline"
  /\ Acceptable(c.main.lit) /\ Field(c.main.lit, "data").k = "array"

C6_AnyOrderInlineIsExtracted ==
  (Extracted /\ OneInlineLiteral(source))
  => /\ result.element
     /\ PayloadOf(result.props, source.main.lit)
     /\ IsTrimOf(result.text, Without(source, "main"))

(***************************************************************************)
(* C6 amended: the same, for a literal in which the discriminator comes    *)
(* before the data array with no nested object or array in front of it,    *)
(* the points of data are flat objects, and no nested object or array      *)
(* follows the data array.                                                 *)
(***************************************************************************)
C6_ShapedInlineIsExtracted ==
  (Extracted /\ OneInlineLiteral(source) /\ Shaped(source.main.lit))
  => /\ result.element /\ result.via = "inline"
     /\ PayloadOf(result.props, source.main.lit)
     /\ IsTrimOf(result.text, Without(source, "main"))
     /\ shown.element /\ shown.text = result.text /\ shown.props = result.props

\* the full literal between words: the residual is the words
C6_Witness ==
  /\ Extracted /\ OneInlineLiteral(source)
  /\ source.main.lit = "full" /\ source.worded /\ source.trail = 1
  /\ result.element /\ result.via = "inline"
  /\ result.text = <<W, SP, SP, W>>

(***************************************************************************)
(* C7: extraction and rendering never raise for a problem of the input's   *)
(* shape: whatever the embedded data, processing completes.                *)
(***************************************************************************)
C7_NeverRaises == pc # "crashed"

(***************************************************************************)
(* C8: when the first point's price is exactly zero, the percent change on *)
(* display is a defined fallback, never Infinity or NaN.                   *)
(***************************************************************************)
Rendered == pc = "rendered" /\ view.state = "chart"
StartPrice == Member(shown.props.data.a[1], "price").n
CurrentPrice == shown.props.current_price.n

C8_ZeroStartShowsFallback ==
  (Rendered /\ StartPrice = 0) => view.percent.s \notin {"Infinity", "-Infinity", "NaN"}

(***************************************************************************)
(* C9: with data not empty, the change on display is current_price minus   *)
(* the first point's price, the percentage is that change over the first   *)
(* price times 100, to two decimals (the IEEE quotient when the first      *)
(* price is 0), and the indicator is positive exactly when the change is   *)
(* >= 0; nothing of it depends on another point of data.                   *)
(***************************************************************************)
C9_ChangeFromFirstPoint ==
  Rendered =>
    LET change == CurrentPrice - StartPrice IN
    /\ view.price = Fixed("", CurrentPrice)
    /\ view.change = Fixed(IF change < 0 THEN "-" ELSE "", Abs(change))
    /\ view.positive <=> change >= 0
    /\ view.sign = IF change >= 0 THEN "+" ELSE ""
    /\ StartPrice # 0 =>
         /\ view.percent.s = ""
         /\ 2 * Abs(view.percent.n * StartPrice - Abs(change) * 10000) <= StartPrice
         /\ view.percent.n # 0 => (view.percent.sign = "-" <=> change < 0)
    /\ StartPrice = 0 =>
         view.percent.s = IF change = 0 THEN "NaN" ELSE "Infinity"

\* 150.25 -> 155.50 shows +5.25 (3.49%), whatever the last point is
C9_Witness ==
  /\ Rendered
  /\ StartPrice = 15025 /\ CurrentPrice = 15550
  /\ Len(shown.props.data.a) = 2
  /\ Member(shown.props.data.a[2], "price").n = 1000
  /\ view.sign = "+" /\ view.change = Fixed("", 525) /\ view.percent = Fixed("", 349)
  /\ view.positive

(***************************************************************************)
(* C10: a payload with empty data renders only the message "No data        *)
(* available for <ticker>": nothing is subtracted or divided, there is no  *)
(* chart and no stats panel; and a payload with data = [] embedded in a    *)
(* text passes extraction and reaches that state.                          *)
(***************************************************************************)
EmptyDataAlone(c) ==
  /\ ~Present(c.before) /\ ~Present(c.after)
  /\ c.main.form \in {"block", "inline"} /\ c.main.lit = "empty"

C10_EmptyDataShowsNoData ==
  /\ (Extracted /\ EmptyDataAlone(source))
     => result.element /\ result.props.data = Arr(<<>>) /\ shown.element
  /\ (pc \in {"rendered", "crashed"} /\ shown.props.data = Arr(<<>>))
     => /\ pc = "rendered"
        /\ view.state = "nodata"
        /\ view.ticker = shown.props.ticker
        /\ view.derived = {}
        /\ view.axis = <<>> /\ view.points = -1
        /\ view.price = NoFixed /\ view.change = NoFixed /\ view.percent = NoFixed
        /\ view.start = NoFixed /\ view.current = NoFixed

\* the inline literal with data = [] has gone through extraction and the renderer
C10_Witness ==
  /\ pc = "rendered"
  /\ EmptyDataAlone(source) /\ source.main.form = "inline"
  /\ view.state = "nodata" /\ view.ticker = Str("AAPL") /\ view.derived = {}

(***************************************************************************)
(* C11 as stated: the values handed to the renderer are the ticker, data   *)
(* and current_price as parsed; company_name as parsed, or the ticker when *)
(* the payload has no company_name; period as parsed, or "1mo" when the    *)
(* payload has no period.                                                  *)
(***************************************************************************)
\* the places the accepted payload can have come from
WinnerPlaces(c, via) ==
  IF via = "block" THEN {FirstBlock(c)} \ {""}
  ELSE {p \in Places :
          /\ Present(At(c, p)) /\ Shaped(At(c, p).lit)
          /\ \A q \in Earlier(p) : Present(At(c, q)) => ~Shaped(At(c, q).lit)}

Absent(v) == v = Undefined

C11_AbsentMembersDefaulted ==
  (Extracted /\ result.element)
  => \E p \in WinnerPlaces(source, result.via) :
       LET lit == At(source, p).lit IN
       /\ PayloadOf(shown.props, lit)
       /\ shown.props.company_name =
            IF Absent(Field(lit, "company_name")) THEN Field(lit, "ticker")
            ELSE Field(lit, "company_name")
       /\ shown.props.period =
            IF Absent(Field(lit, "period")) THEN Str("1mo") ELSE Field(lit, "period")

(***************************************************************************)
(* C11 amended: ticker, data and current_price are handed on as parsed;    *)
(* company_name as parsed when it is truthy, the ticker when it is absent  *)
(* or falsy (the empty string, null, 0, false); period as parsed when it   *)
(* is truthy, "1mo" when it is absent or falsy.                            *)
(***************************************************************************)
C11_FalsyMembersDefaulted ==
  (Extracted /\ result.element)
  => /\ shown.element /\ shown.props = result.props
     /\ \E p \in WinnerPlaces(source, result.via) :
          LET lit == At(source, p).lit IN
          /\ PayloadOf(shown.props, lit)
          /\ shown.props.company_name =
               IF Truthy(Field(lit, "company_name")) THEN Field(lit, "company_name")
               ELSE Field(lit, "ticker")
          /\ shown.props.period =
               IF Truthy(Field(lit, "period")) THEN Field(lit, "period") ELSE Str("1mo")

\* the payload without company_name and period: both fall back
C11_Witness ==
  /\ Extracted
  /\ source.main = Fragment("block", "min") /\ ~Present(source.before)
  /\ result.element /\ result.via = "block"
  /\ Absent(Field("min", "company_name")) /\ Absent(Field("min", "period"))
  /\ shown.props.ticker = Str("MSFT")
  /\ shown.props.company_name = Str("MSFT")
  /\ shown.props.period = Str("1mo")

(***************************************************************************)
(* C12: a render of a payload whose data has N >= 1 points draws the chart *)
(* with exactly N points along the horizontal axis, the dates in the order *)
(* of data (also when that order is not chronological), shows N as the     *)
(* point count, and leaves the payload, data included, as it was handed    *)
(* in.                                                                     *)
(***************************************************************************)
DataOf(s) == s.props.data
DatesOf(data) == [i \in 1..Len(data.a) |-> Member(data.a[i], "date")]

C12_AxisInInputOrder ==
  [][(/\ pc = "returned" /\ pc' # "returned"
      /\ shown.element /\ DataOf(shown).k = "array" /\ Len(DataOf(shown).a) >= 1)
     => /\ pc' = "rendered" /\ view'.state = "chart"
        /\ Len(view'.axis) = Len(DataOf(shown).a)
        /\ view'.axis = DatesOf(DataOf(shown))
        /\ view'.points = Len(DataOf(shown).a)
        /\ shown' = shown]_vars

\* two points, the later date first: the axis keeps them so
C12_Witness ==
  /\ Rendered
  /\ Len(DataOf(shown).a) = 2
  /\ DatesOf(DataOf(shown)) = <<Str(Dates[2]), Str(Dates[1])>>
  /\ view.axis = <<Str(Dates[2]), Str(Dates[1])>>
  /\ view.points = 2

(***************************************************************************)
(* C14: of the messages that go through makeSystemMessage, textRenderer is *)
(* run only on those with role "assistant" and a string for content;       *)
(* every other message, and every assistant message in which no payload is *)
(* found, comes back unchanged; and the content is replaced only when      *)
(* textRenderer accepted a payload that stands in that same message.       *)
(***************************************************************************)
Hooked == pc # "idle"
ForExtraction == message.role = "assistant" /\ message.isString
Unchanged ==
  /\ shown.role = message.role /\ shown.isString = message.isString
  /\ ~shown.element /\ shown.text = message.content /\ shown.props = NoProps

C14_HookTouchesOnlyExtractedAssistantText ==
  Hooked =>
    /\ result # NotCalled => ForExtraction
    /\ (~ForExtraction \/ ~result.element) => Unchanged
    /\ ~Unchanged =>
         /\ ForExtraction /\ result.element /\ shown.element
         /\ shown.role = message.role
         /\ shown.text = result.text /\ shown.props = result.props
         /\ \E p \in WinnerPlaces(source, result.via) :
              PayloadOf(shown.props, At(source, p).lit)

\* a user message that quotes an acceptable fenced block: not looked at, not changed
C14_Witness ==
  /\ pc = "returned"
  /\ message.role = "user" /\ message.isString
  /\ source.main = Fragment("block", "full")
  /\ message.content = TextOf(source)
  /\ result = NotCalled
  /\ Unchanged

====
